---- MODULE Spec2Model ----
(***************************************************************************)
(* zkp-rs: substring-containment proofs.  The module models the prove /    *)
(* verify orchestration of StarkProver (src/backend/stark_prover.rs), the  *)
(* native reference circuit SubstringCircuit, the TraceGenerator and the   *)
(* SubstringAIR constraint system (src/circuits).                          *)
(*                                                                         *)
(* Byte strings (Vec<u8>, [u8; 32]) are sequences over 0..255, indexed     *)
(* from 1; a Rust index k is the sequence index k + 1.  A Rust String is a *)
(* sequence of Unicode scalar values; String::into_bytes is its UTF-8      *)
(* encoding.  A trace is column-major as in the source: trace[c][r], both  *)
(* indexed from 0.                                                         *)
(***************************************************************************)
EXTENDS Integers, Sequences, FiniteSets, TLC

(***************************************************************************)
(* Bounds of the model.                                                    *)
(***************************************************************************)
\* longest witness document enumerated over the whole byte alphabet
MaxDocLen == 3
\* longest claimed substring, in characters
MaxSubChars == 2
\* CircuitConfig.max_text_len of the prover under study
CfgMaxTextLen == 3
\* CircuitConfig.max_substring_len of the prover under study
CfgMaxSubstringLen == 3

\* bytes a witness document is built from: 'a', 'b' and 0xFF, which is
\* never part of a valid UTF-8 sequence
DocAlphabet == {97, 98, 255}
\* characters a claimed substring is built from: 'a', 'b' and U+FFFD
SubAlphabet == {97, 98, 65533}

(***************************************************************************)
(* Result<T, ZkpError>                                                     *)
(***************************************************************************)
Ok(v) == [ok |-> TRUE, val |-> v]

Err(kind, msg) == [ok |-> FALSE, kind |-> kind, msg |-> msg]

(***************************************************************************)
(* Generic helpers on sequences.                                           *)
(***************************************************************************)
SeqsUpTo(S, n) == UNION {[1..k -> S] : k \in 0..n}

Repeat(x, n) == [i \in 1..n |-> x]

\* slice[a .. b) of a byte string, Rust indices
Slice(s, a, b) == SubSeq(s, a + 1, b)

\* <[u8]>::starts_with / str::starts_with on UTF-8 bytes
StartsWith(s, prefix) ==
    /\ Len(prefix) <= Len(s)
    /\ SubSeq(s, 1, Len(prefix)) = prefix

(***************************************************************************)
(* UTF-8.                                                                  *)
(***************************************************************************)
\* char::encode_utf8
EncodeUtf8(cp) ==
    IF cp < 128 THEN <<cp>>
    ELSE IF cp < 2048 THEN <<192 + (cp \div 64), 128 + (cp % 64)>>
    ELSE IF cp < 65536 THEN
        <<224 + (cp \div 4096), 128 + ((cp \div 64) % 64), 128 + (cp % 64)>>
    ELSE <<240 + (cp \div 262144), 128 + ((cp \div 4096) % 64),
           128 + ((cp \div 64) % 64), 128 + (cp % 64)>>

\* String::into_bytes / String::as_bytes: the UTF-8 encoding of the string
RECURSIVE into_bytes(_)
into_bytes(s) ==
    IF s = <<>> THEN <<>> ELSE EncodeUtf8(Head(s)) \o into_bytes(Tail(s))

\* core::str::utf8_char_width
utf8_char_width(b) ==
    IF b < 128 THEN 1
    ELSE IF b >= 194 /\ b <= 223 THEN 2
    ELSE IF b >= 224 /\ b <= 239 THEN 3
    ELSE IF b >= 240 /\ b <= 244 THEN 4
    ELSE 0

\* safe_get of Utf8Chunks: the byte at Rust index i, 0 past the end
safe_get(bytes, i) == IF i < Len(bytes) THEN bytes[i + 1] ELSE 0

IsCont(b) == b >= 128 /\ b <= 191

\* One step of core::str::Utf8Chunks at Rust index i: the number of bytes
\* consumed and whether they form one valid scalar value (otherwise they are
\* a maximal invalid prefix, which from_utf8_lossy replaces by U+FFFD).
Utf8Chunk(bytes, i) ==
    LET b0 == bytes[i + 1]
        b1 == safe_get(bytes, i + 1)
        b2 == safe_get(bytes, i + 2)
        b3 == safe_get(bytes, i + 3)
        w  == utf8_char_width(b0)
        second3 == \/ b0 = 224 /\ b1 >= 160 /\ b1 <= 191
                   \/ b0 >= 225 /\ b0 <= 236 /\ IsCont(b1)
                   \/ b0 = 237 /\ b1 >= 128 /\ b1 <= 159
                   \/ b0 >= 238 /\ b0 <= 239 /\ IsCont(b1)
        second4 == \/ b0 = 240 /\ b1 >= 144 /\ b1 <= 191
                   \/ b0 >= 241 /\ b0 <= 243 /\ IsCont(b1)
                   \/ b0 = 244 /\ b1 >= 128 /\ b1 <= 143
    IN  CASE w = 1 -> [valid |-> TRUE, len |-> 1]
          [] w = 2 -> IF IsCont(b1) THEN [valid |-> TRUE, len |-> 2]
                      ELSE [valid |-> FALSE, len |-> 1]
          [] w = 3 -> IF ~second3 THEN [valid |-> FALSE, len |-> 1]
                      ELSE IF ~IsCont(b2) THEN [valid |-> FALSE, len |-> 2]
                      ELSE [valid |-> TRUE, len |-> 3]
          [] w = 4 -> IF ~second4 THEN [valid |-> FALSE, len |-> 1]
                      ELSE IF ~IsCont(b2) THEN [valid |-> FALSE, len |-> 2]
                      ELSE IF ~IsCont(b3) THEN [valid |-> FALSE, len |-> 3]
                      ELSE [valid |-> TRUE, len |-> 4]
          [] OTHER -> [valid |-> FALSE, len |-> 1]

\* U+FFFD REPLACEMENT CHARACTER as UTF-8: EF BF BD
ReplacementUtf8 == <<239, 191, 189>>

\* String::from_utf8_lossy, as the UTF-8 bytes of the resulting string
RECURSIVE LossyFrom(_, _)
LossyFrom(bytes, i) ==
    IF i >= Len(bytes) THEN <<>>
    ELSE LET ch == Utf8Chunk(bytes, i)
         IN  (IF ch.valid THEN Slice(bytes, i, i + ch.len) ELSE ReplacementUtf8)
                 \o LossyFrom(bytes, i + ch.len)

from_utf8_lossy(bytes) == LossyFrom(bytes, 0)

\* String::from_utf8(bytes).is_ok()
RECURSIVE ValidFrom(_, _)
ValidFrom(bytes, i) ==
    IF i >= Len(bytes) THEN TRUE
    ELSE LET ch == Utf8Chunk(bytes, i)
         IN  ch.valid /\ ValidFrom(bytes, i + ch.len)

from_utf8_ok(bytes) == ValidFrom(bytes, 0)

\* str::find(pattern): byte index of the first occurrence, -1 for None
str_find(hay, pat) ==
    LET hits == {k \in 0..(Len(hay) - Len(pat)) : Slice(hay, k, k + Len(pat)) = pat}
    IN  IF hits = {} THEN -1
        ELSE CHOOSE k \in hits : \A j \in hits : k <= j

\* Display of usize
RECURSIVE ToDecimal(_)
ToDecimal(n) ==
    IF n < 10 THEN <<48 + n>> ELSE ToDecimal(n \div 10) \o <<48 + (n % 10)>>

(***************************************************************************)
(* SHA-256 (sha2 crate), an external primitive.  It is modelled by a       *)
(* streaming hash with the same interface (new / update / finalize) and a  *)
(* 32-byte digest.  Distinct documents of the model have distinct digests,  *)
(* and no digest is all zero.                                              *)
(***************************************************************************)
DigestLen == 32

ShaModulus == 32749

Sha256_new == 1

\* hasher.update(bytes) acts on the hasher state h as h -> (h * mul + add)
\* modulo ShaModulus; ShaStep(bytes) is that <<mul, add>> pair
ShaByteStep(b) == <<257, b + 1>>

\* update(x) followed by update(y)
ShaCompose(s, t) ==
    <<(s[1] * t[1]) % ShaModulus, (s[2] * t[1] + t[2]) % ShaModulus>>

\* the step of bytes[lo + 1 .. hi]
RECURSIVE ShaStepRange(_, _, _)
ShaStepRange(bytes, lo, hi) ==
    IF hi <= lo THEN <<1, 0>>
    ELSE IF hi = lo + 1 THEN ShaByteStep(bytes[hi])
    ELSE LET mid == (lo + hi) \div 2
         IN  ShaCompose(ShaStepRange(bytes, lo, mid), ShaStepRange(bytes, mid, hi))

ShaStep(bytes) == ShaStepRange(bytes, 0, Len(bytes))

ShaApply(h, step) == (h * step[1] + step[2]) % ShaModulus

Sha256_update(h, bytes) == ShaApply(h, ShaStep(bytes))

Sha256_finalize(h) ==
    [i \in 1..DigestLen |->
        IF i = 1 THEN h % 256
        ELSE IF i = 2 THEN (h \div 256) % 256
        ELSE (h * i + (i - 1)) % 256]

\* Sha256::digest(data)
Sha256(data) == Sha256_finalize(Sha256_update(Sha256_new, data))

\* [0u8; 32]
ZeroDigest == Repeat(0, DigestLen)

(***************************************************************************)
(* String literals of the source, as ASCII bytes.                          *)
(***************************************************************************)
\* "ERROR:"
TagError ==
    <<69, 82, 82, 79, 82, 58>>

\* "TRACE_ERROR:"
TagTraceError ==
    <<84, 82, 65, 67, 69, 95, 69, 82, 82, 79, 82, 58>>

\* "CONSTRAINT_ERROR:"
TagConstraintError ==
    <<67, 79, 78, 83, 84, 82, 65, 73, 78, 84, 95, 69, 82, 82, 79, 82, 58>>

\* "STARK_ERROR:"
TagStarkError ==
    <<83, 84, 65, 82, 75, 95, 69, 82, 82, 79, 82, 58>>

\* "Invalid witness: "
DisplayInvalidWitness ==
    <<73, 110, 118, 97, 108, 105, 100, 32, 119, 105, 116, 110, 101, 115, 115, 58, 32>>

\* "Invalid public input: "
DisplayInvalidPublicInput ==
    <<73, 110, 118, 97, 108, 105, 100, 32, 112, 117, 98, 108, 105, 99, 32, 105, 110, 112, 117, 116, 58, 32>>

\* "Serialization error: "
DisplaySerializationError ==
    <<83, 101, 114, 105, 97, 108, 105, 122, 97, 116, 105, 111, 110, 32, 101, 114, 114, 111, 114, 58, 32>>

\* "Substring not found in plaintext"
MsgSubstringNotFound ==
    <<83, 117, 98, 115, 116, 114, 105, 110, 103, 32, 110, 111, 116, 32, 102, 111, 117, 110, 100, 32, 105, 110, 32, 112, 108, 97, 105, 110, 116, 101, 120, 116>>

\* "Invalid commitment length"
MsgInvalidCommitmentLength ==
    <<73, 110, 118, 97, 108, 105, 100, 32, 99, 111, 109, 109, 105, 116, 109, 101, 110, 116, 32, 108, 101, 110, 103, 116, 104>>

\* "Missing witness"
MsgMissingWitness ==
    <<77, 105, 115, 115, 105, 110, 103, 32, 119, 105, 116, 110, 101, 115, 115>>

\* "Plaintext too long: "
MsgPlaintextTooLong ==
    <<80, 108, 97, 105, 110, 116, 101, 120, 116, 32, 116, 111, 111, 32, 108, 111, 110, 103, 58, 32>>

\* "Substring too long: "
MsgSubstringTooLong ==
    <<83, 117, 98, 115, 116, 114, 105, 110, 103, 32, 116, 111, 111, 32, 108, 111, 110, 103, 58, 32>>

\* " > "
MsgGreaterThan ==
    <<32, 62, 32>>

\* "Substring offset out of bounds"
MsgOffsetOutOfBounds ==
    <<83, 117, 98, 115, 116, 114, 105, 110, 103, 32, 111, 102, 102, 115, 101, 116, 32, 111, 117, 116, 32, 111, 102, 32, 98, 111, 117, 110, 100, 115>>

\* "Serialization failed: "
MsgSerializationFailed ==
    <<83, 101, 114, 105, 97, 108, 105, 122, 97, 116, 105, 111, 110, 32, 102, 97, 105, 108, 101, 100, 58, 32>>

\* "Deserialization failed: "
MsgDeserializationFailed ==
    <<68, 101, 115, 101, 114, 105, 97, 108, 105, 122, 97, 116, 105, 111, 110, 32, 102, 97, 105, 108, 101, 100, 58, 32>>

\* "FRI_PROOF"
FriDomainSeparator ==
    <<70, 82, 73, 95, 80, 82, 79, 79, 70>>

(***************************************************************************)
(* The Goldilocks field.  The order 2^64 - 2^32 + 1 exceeds the integers   *)
(* of the checker; the model keeps a prime order large enough that no      *)
(* embedded byte, flag or row count of the model wraps around.             *)
(***************************************************************************)
FieldOrder == 32719

\* F::ZERO, F::ONE
F_ZERO == 0

F_ONE == 1

\* F::from_int (QuotientMap<u8>, QuotientMap<usize>)
from_int(n) == n % FieldOrder

FAdd(a, b) == (a + b) % FieldOrder

FSub(a, b) == (a - b + FieldOrder) % FieldOrder

FMul(a, b) == (a * b) % FieldOrder

\* PrimeField64::as_canonical_u64().to_le_bytes(): eight bytes, the upper
\* four being zero for every canonical value below 2^32
to_le_bytes(x) ==
    <<x % 256, (x \div 256) % 256, (x \div 65536) % 256, (x \div 16777216) % 256,
      0, 0, 0, 0>>

(***************************************************************************)
(* config.rs and core/types.rs                                             *)
(***************************************************************************)
CircuitConfig(max_text_len, max_substring_len, enable_multi_block_sha) ==
    [max_text_len |-> max_text_len,
     max_substring_len |-> max_substring_len,
     enable_multi_block_sha |-> enable_multi_block_sha]

PublicInputs(commitment, substring) ==
    [commitment |-> commitment, substring |-> substring]

\* CircuitParams with witness: Some(CircuitWitness { plaintext, offset })
CircuitParams(config, public_inputs, plaintext, offset) ==
    [config |-> config,
     public_inputs |-> public_inputs,
     has_witness |-> TRUE,
     witness |-> [plaintext |-> plaintext, offset |-> offset]]

\* CircuitParams with witness: None
CircuitParamsNoWitness(config, public_inputs) ==
    [config |-> config,
     public_inputs |-> public_inputs,
     has_witness |-> FALSE,
     witness |-> [plaintext |-> <<>>, offset |-> 0]]

\* Statement { commitment: Commitment { inner }, claim: Claim::Substring { value } }
Statement(commitment, value) == [commitment |-> commitment, claim |-> value]

Witness(plaintext) == [plaintext |-> plaintext]

(***************************************************************************)
(* circuits/trace.rs: TraceLayout::default()                               *)
(***************************************************************************)
sha_state_cols_start == 0

sha_state_cols_len == 32

plaintext_col == 96

substring_col == 97

match_flag_col == 98

offset_indicator_col == 99

range_check_col == 100

total_columns == 101

Max(a, b) == IF a >= b THEN a ELSE b

Min(a, b) == IF a <= b THEN a ELSE b

\* vec![vec![F::ZERO; trace_length]; columns]
ZeroTrace(columns, trace_length) ==
    [c \in 0..(columns - 1) |-> [r \in 0..(trace_length - 1) |-> F_ZERO]]

\* trace[0].len()
TraceLen(trace) == Cardinality(DOMAIN trace[0])

(***************************************************************************)
(* usize arithmetic.  CircuitWitness::offset is a usize the caller chooses; *)
(* offset + n overflows for offsets near usize::MAX.  A build with overflow *)
(* checks (the dev profile) panics on it, a build without them (the release *)
(* profile) wraps around.  UsizeMax stands for usize::MAX.                  *)
(***************************************************************************)
VARIABLE overflow_checks   \* TRUE: the build panics on arithmetic overflow

UsizeMax == 2147483647

Panic == [ok |-> FALSE, kind |-> "panic", msg |-> <<>>]

\* a + b on usize: panicked is TRUE when the build panics on the overflow
usize_add(a, b) ==
    IF a > UsizeMax - b
    THEN IF overflow_checks THEN [panicked |-> TRUE, val |-> 0]
         ELSE [panicked |-> FALSE, val |-> a - (UsizeMax - b) - 1]
    ELSE [panicked |-> FALSE, val |-> a + b]

\* the i with offset + i = pos on usize (wrapping around past UsizeMax)
WindowIndex(offset, pos) ==
    IF pos >= offset THEN pos - offset ELSE (UsizeMax - offset) + 1 + pos

(***************************************************************************)
(* circuits/substring_circuit.rs: SubstringCircuit                         *)
(***************************************************************************)
SubstringCircuit_new(config) == [config |-> config]

validate_params(self, params) ==
    LET witness == params.witness
        substring == params.public_inputs.substring
    IN  IF ~params.has_witness THEN Err("InvalidWitness", MsgMissingWitness)
        ELSE IF Len(witness.plaintext) > self.config.max_text_len THEN
            Err("InvalidWitness",
                MsgPlaintextTooLong \o ToDecimal(Len(witness.plaintext))
                    \o MsgGreaterThan \o ToDecimal(self.config.max_text_len))
        ELSE IF Len(substring) > self.config.max_substring_len THEN
            Err("InvalidWitness",
                MsgSubstringTooLong \o ToDecimal(Len(substring))
                    \o MsgGreaterThan \o ToDecimal(self.config.max_substring_len))
        ELSE IF usize_add(witness.offset, Len(substring)).panicked THEN Panic
        ELSE IF usize_add(witness.offset, Len(substring)).val
                    > Len(witness.plaintext) THEN
            Err("InvalidWitness", MsgOffsetOutOfBounds)
        ELSE Ok(TRUE)

verify_hash_constraint(self, params) ==
    IF ~params.has_witness THEN Err("InvalidWitness", MsgMissingWitness)
    ELSE Ok(Sha256(params.witness.plaintext) = params.public_inputs.commitment)

verify_substring_constraint(self, params) ==
    IF ~params.has_witness THEN Err("InvalidWitness", MsgMissingWitness)
    ELSE LET substring == params.public_inputs.substring
             start == params.witness.offset
             end == usize_add(start, Len(substring))
         IN  IF end.panicked THEN Panic
             ELSE IF end.val > Len(params.witness.plaintext) THEN Ok(FALSE)
             \* &plaintext[start .. end] panics when start > end
             ELSE IF start > end.val THEN Panic
             ELSE Ok(Slice(params.witness.plaintext, start, end.val) = substring)

\* <SubstringCircuit as Circuit<F>>::generate_trace
SubstringCircuit_generate_trace(self, params) ==
    LET checked == validate_params(self, params)
        plaintext == params.witness.plaintext
        substring == params.public_inputs.substring
        offset == params.witness.offset
        trace_len == Max(self.config.max_text_len, 64)
        num_columns == 101
        t0 == ZeroTrace(num_columns, trace_len)
        \* fill the plaintext bytes
        t1 == [t0 EXCEPT ![96] =
                 [r \in DOMAIN @ |->
                    IF r < Len(plaintext) THEN from_int(plaintext[r + 1]) ELSE @[r]]]
        \* fill the substring window and the match flags: byte i goes to
        \* row pos = offset + i
        Written(r) == WindowIndex(offset, r) < Len(substring)
        ByteAt(r) == substring[WindowIndex(offset, r) + 1]
        t2 == [t1 EXCEPT
                 ![97] = [r \in DOMAIN @ |->
                    IF Written(r) /\ r < trace_len
                    THEN from_int(ByteAt(r)) ELSE @[r]],
                 ![98] = [r \in DOMAIN @ |->
                    IF /\ Written(r) /\ r < trace_len
                       /\ r < Len(plaintext)
                       /\ plaintext[r + 1] = ByteAt(r)
                    THEN F_ONE ELSE @[r]]]
        \* set the offset indicator: for i in offset .. offset + |substring|
        t3 == [t2 EXCEPT ![99] =
                 [r \in DOMAIN @ |->
                    IF /\ r >= offset
                       /\ r < usize_add(offset, Len(substring)).val
                       /\ r < trace_len
                    THEN F_ONE ELSE @[r]]]
    IN  IF ~checked.ok THEN checked ELSE Ok(t3)

\* <SubstringCircuit as Circuit<F>>::verify_constraints
SubstringCircuit_verify_constraints(self, trace, params) ==
    LET hash_ok == verify_hash_constraint(self, params)
        sub_ok == verify_substring_constraint(self, params)
        rows == 0..(TraceLen(trace) - 1)
    IN  IF ~hash_ok.ok THEN hash_ok
        ELSE IF ~hash_ok.val THEN Ok(FALSE)
        ELSE IF ~sub_ok.ok THEN sub_ok
        ELSE IF ~sub_ok.val THEN Ok(FALSE)
        ELSE Ok(\A i \in rows :
                   trace[99][i] = F_ONE =>
                       /\ trace[98][i] = F_ONE
                       /\ trace[96][i] = trace[97][i])

(***************************************************************************)
(* circuits/trace.rs: TraceGenerator                                       *)
(***************************************************************************)
TraceGenerator_new(config) == [config |-> config]

\* compute_trace_length with the block count rounded down
compute_trace_length_floor(self, params) ==
    LET len == Len(params.witness.plaintext)
        sha_steps == IF self.config.enable_multi_block_sha
                     THEN (len \div 64) * 64
                     ELSE 64
        byte_steps == len
    IN  Max(Max(sha_steps, byte_steps), 64)

compute_trace_length(self, params) ==
    LET len == Len(params.witness.plaintext)
        sha_steps == IF self.config.enable_multi_block_sha
                     THEN ((len + 63) \div 64) * 64
                     ELSE 64
        byte_steps == len
    IN  Max(Max(sha_steps, byte_steps), 64)

\* generate_sha256_trace storing the whole digest in row trace_length - 32
generate_sha256_trace_single_row(trace, witness, trace_length) ==
    LET hash == Sha256(witness.plaintext)
    IN  [c \in DOMAIN trace |->
            IF /\ trace_length >= 32
               /\ c >= sha_state_cols_start
               /\ c - sha_state_cols_start < DigestLen
               /\ c - sha_state_cols_start < sha_state_cols_len
               /\ trace_length > 32
            THEN [trace[c] EXCEPT
                    ![trace_length - 32] =
                        from_int(hash[c - sha_state_cols_start + 1])]
            ELSE trace[c]]

generate_sha256_trace(trace, witness, trace_length) ==
    LET hash == Sha256(witness.plaintext)
    IN  [c \in DOMAIN trace |->
            IF /\ trace_length >= 32
               /\ c >= sha_state_cols_start
               /\ c - sha_state_cols_start < DigestLen
               /\ c - sha_state_cols_start < sha_state_cols_len
               /\ trace_length > 32
            THEN [trace[c] EXCEPT
                    ![trace_length - 32 + (c - sha_state_cols_start)] =
                        from_int(hash[c - sha_state_cols_start + 1])]
            ELSE trace[c]]

generate_byte_trace(trace, params, trace_length) ==
    LET plaintext == params.witness.plaintext
    IN  [trace EXCEPT ![plaintext_col] =
            [r \in DOMAIN @ |->
                IF r < Len(plaintext) /\ r < trace_length
                THEN from_int(plaintext[r + 1]) ELSE @[r]]]

generate_substring_trace(trace, params, trace_length) ==
    LET plaintext == params.witness.plaintext
        substring == params.public_inputs.substring
        offset == params.witness.offset
        \* byte i goes to row pos = offset + i
        ByteAt(pos) == substring[WindowIndex(offset, pos) + 1]
        InWindow(pos) == WindowIndex(offset, pos) < Len(substring)
                             /\ pos < trace_length
    IN  [trace EXCEPT
            ![substring_col] = [pos \in DOMAIN @ |->
                IF InWindow(pos) THEN from_int(ByteAt(pos))
                ELSE @[pos]],
            ![offset_indicator_col] = [pos \in DOMAIN @ |->
                IF InWindow(pos) THEN F_ONE ELSE @[pos]],
            ![match_flag_col] = [pos \in DOMAIN @ |->
                IF /\ InWindow(pos)
                   /\ pos < Len(plaintext)
                   /\ plaintext[pos + 1] = ByteAt(pos)
                THEN F_ONE ELSE @[pos]]]

\* generate_range_check_trace setting the flag on every row of the trace
generate_range_check_trace_every_row(trace, witness, trace_length) ==
    [trace EXCEPT ![range_check_col] =
        [r \in DOMAIN @ |-> IF r < trace_length THEN F_ONE ELSE @[r]]]

generate_range_check_trace(trace, witness, trace_length) ==
    [trace EXCEPT ![range_check_col] =
        [r \in DOMAIN @ |->
            IF r < Len(witness.plaintext) /\ r < trace_length THEN F_ONE ELSE @[r]]]

TraceGenerator_generate_trace(self, params) ==
    IF ~params.has_witness THEN Err("InvalidWitness", MsgMissingWitness)
    \* let pos = offset + i inside generate_substring_trace
    ELSE IF /\ params.public_inputs.substring # <<>>
            /\ usize_add(params.witness.offset,
                         Len(params.public_inputs.substring) - 1).panicked THEN Panic
    ELSE LET trace_length == compute_trace_length(self, params)
             t0 == ZeroTrace(total_columns, trace_length)
             t1 == generate_sha256_trace(t0, params.witness, trace_length)
             t2 == generate_byte_trace(t1, params, trace_length)
             t3 == generate_substring_trace(t2, params, trace_length)
             t4 == generate_range_check_trace(t3, params.witness, trace_length)
         IN  Ok(t4)

(***************************************************************************)
(* circuits/air.rs: SubstringAIR                                           *)
(***************************************************************************)
SubstringAIR_new(config) == [config |-> config]

num_sha256_constraints(self) == 32

\* one constraint per position of the substring, not of the text
num_substring_constraints_per_substring(self) == self.config.max_substring_len

num_substring_constraints(self) == self.config.max_text_len

num_range_constraints(self) == self.config.max_text_len

num_logic_constraints(self) == self.config.max_text_len * 2

num_constraints(self) ==
    num_sha256_constraints(self)
        + num_substring_constraints(self)
        + num_range_constraints(self)
        + num_logic_constraints(self)

evaluate_sha256_constraints(self, trace, public_inputs) ==
    LET trace_len == TraceLen(trace)
        pushed == {i \in 0..(Len(public_inputs.commitment) - 1) :
                      i < sha_state_cols_len /\ trace_len >= 32}
    IN  [k \in 1..Cardinality(pushed) |->
            LET i == k - 1
                col_idx == sha_state_cols_start + i
                row_idx == trace_len - 32 + i
                actual == trace[col_idx][Min(row_idx, trace_len - 1)]
                expected == from_int(public_inputs.commitment[i + 1])
            IN  FSub(actual, expected)]

\* evaluate_substring_constraints without the constraint that ties the
\* plaintext byte to the substring byte
evaluate_substring_constraints_public_only(self, trace, public_inputs) ==
    LET trace_len == TraceLen(trace)
        substring == public_inputs.substring
    IN  [k \in 1..(Len(substring) * trace_len) |->
            LET i == (k - 1) \div trace_len
                row == (k - 1) % trace_len
                offset_indicator == trace[offset_indicator_col][row]
                substring_byte == trace[substring_col][row]
                expected == from_int(substring[i + 1])
            IN  FMul(offset_indicator, FSub(substring_byte, expected))]

evaluate_substring_constraints(self, trace, public_inputs) ==
    LET trace_len == TraceLen(trace)
        substring == public_inputs.substring
    IN  [k \in 1..(2 * Len(substring) * trace_len) |->
            LET i == (k - 1) \div (2 * trace_len)
                row == ((k - 1) % (2 * trace_len)) \div 2
                offset_indicator == trace[offset_indicator_col][row]
                plaintext_byte == trace[plaintext_col][row]
                substring_byte == trace[substring_col][row]
                expected == from_int(substring[i + 1])
            IN  IF (k - 1) % 2 = 0
                THEN FMul(offset_indicator, FSub(substring_byte, expected))
                ELSE FMul(offset_indicator, FSub(plaintext_byte, substring_byte))]

evaluate_range_constraints(self, trace) ==
    LET trace_len == TraceLen(trace)
    IN  [k \in 1..trace_len |->
            LET range_flag == trace[range_check_col][k - 1]
            IN  FMul(range_flag, FSub(range_flag, F_ONE))]

\* window_sum += trace[offset_indicator_col][row] over the rows lo .. hi - 1
RECURSIVE SumColumn(_, _, _)
SumColumn(col, lo, hi) ==
    IF hi <= lo THEN F_ZERO
    ELSE IF hi = lo + 1 THEN col[lo]
    ELSE LET mid == (lo + hi) \div 2
         IN  FAdd(SumColumn(col, lo, mid), SumColumn(col, mid, hi))

\* evaluate_logic_constraints without the boolean constraint on match_flag
evaluate_logic_constraints_flag_unchecked(self, trace, public_inputs) ==
    LET trace_len == TraceLen(trace)
        per_row == [k \in 1..(2 * trace_len) |->
            LET row == (k - 1) \div 2
                offset_indicator == trace[offset_indicator_col][row]
                match_flag == trace[match_flag_col][row]
            IN  IF (k - 1) % 2 = 0
                THEN FMul(offset_indicator, FSub(offset_indicator, F_ONE))
                ELSE FMul(offset_indicator, FSub(F_ONE, match_flag))]
        substring_len == Len(public_inputs.substring)
        window_sum == SumColumn(trace[offset_indicator_col], 0, trace_len)
    IN  per_row \o <<FSub(window_sum, from_int(substring_len))>>

evaluate_logic_constraints(self, trace, public_inputs) ==
    LET trace_len == TraceLen(trace)
        per_row == [k \in 1..(3 * trace_len) |->
            LET row == (k - 1) \div 3
                offset_indicator == trace[offset_indicator_col][row]
                match_flag == trace[match_flag_col][row]
            IN  CASE (k - 1) % 3 = 0 ->
                        FMul(offset_indicator, FSub(offset_indicator, F_ONE))
                  [] (k - 1) % 3 = 1 ->
                        FMul(match_flag, FSub(match_flag, F_ONE))
                  [] OTHER ->
                        FMul(offset_indicator, FSub(F_ONE, match_flag))]
        substring_len == Len(public_inputs.substring)
        window_sum == SumColumn(trace[offset_indicator_col], 0, trace_len)
    IN  per_row \o <<FSub(window_sum, from_int(substring_len))>>

evaluate_constraints(self, trace, public_inputs) ==
    evaluate_sha256_constraints(self, trace, public_inputs)
        \o evaluate_substring_constraints(self, trace, public_inputs)
        \o evaluate_range_constraints(self, trace)
        \o evaluate_logic_constraints(self, trace, public_inputs)

\* verify_all_constraints starting at the second constraint
verify_all_constraints_skip_first(self, trace, public_inputs) ==
    LET constraints == evaluate_constraints(self, trace, public_inputs)
    IN  Ok(\A i \in 2..Len(constraints) : constraints[i] = F_ZERO)

\* verify_all_constraints stopping one constraint short
verify_all_constraints_skip_last(self, trace, public_inputs) ==
    LET constraints == evaluate_constraints(self, trace, public_inputs)
    IN  Ok(\A i \in 1..(Len(constraints) - 1) : constraints[i] = F_ZERO)

verify_all_constraints(self, trace, public_inputs) ==
    LET constraints == evaluate_constraints(self, trace, public_inputs)
    IN  Ok(\A i \in 1..Len(constraints) : constraints[i] = F_ZERO)

(***************************************************************************)
(* backend/stark_prover.rs: the proof payload.                             *)
(*                                                                         *)
(* Proof.inner is a byte string.  The model keeps two forms of it: a       *)
(* literal byte string (form "bytes"), and the JSON text serde_json writes *)
(* for an object (form "json"), kept as the object it denotes: the set of  *)
(* keys present and the value under each key of StarkProofData.  A literal *)
(* byte string of the model is never the text of a JSON object.            *)
(***************************************************************************)
EnvelopeKeys == {"trace_commitment", "public_inputs", "fri_proof", "circuit_config"}

JsonObject(keys, trace_commitment, public_inputs, fri_proof, circuit_config) ==
    [keys |-> keys,
     trace_commitment |-> trace_commitment,
     public_inputs |-> public_inputs,
     fri_proof |-> fri_proof,
     circuit_config |-> circuit_config]

NoJson ==
    JsonObject({}, <<>>, PublicInputs(<<>>, <<>>), <<>>, CircuitConfig(0, 0, FALSE))

BytesPayload(bytes) == [form |-> "bytes", bytes |-> bytes, json |-> NoJson]

JsonPayload(json) == [form |-> "json", bytes |-> <<>>, json |-> json]

Proof(inner) == [inner |-> inner]

\* struct StarkProofData
StarkProofData(trace_commitment, public_inputs, fri_proof, circuit_config) ==
    [trace_commitment |-> trace_commitment,
     public_inputs |-> public_inputs,
     fri_proof |-> fri_proof,
     circuit_config |-> circuit_config]

IsU8Array(a) == \A i \in 1..Len(a) : a[i] \in 0..255

\* serde_json::to_vec(&proof_data)
serde_json_to_vec(proof_data) ==
    Ok(JsonPayload(JsonObject(EnvelopeKeys,
                              proof_data.trace_commitment,
                              proof_data.public_inputs,
                              proof_data.fri_proof,
                              proof_data.circuit_config)))

\* serde_json::from_slice::<StarkProofData>(proof_bytes)
serde_json_from_slice(inner) ==
    IF inner.form # "json" THEN Err("SerializationError", MsgDeserializationFailed)
    ELSE LET j == inner.json
         IN  IF /\ EnvelopeKeys \subseteq j.keys
                /\ IsU8Array(j.trace_commitment)
                /\ IsU8Array(j.public_inputs.commitment)
                /\ Len(j.public_inputs.commitment) = DigestLen
                /\ IsU8Array(j.public_inputs.substring)
                /\ IsU8Array(j.fri_proof)
                /\ j.circuit_config.max_text_len >= 0
                /\ j.circuit_config.max_substring_len >= 0
             THEN Ok(StarkProofData(j.trace_commitment, j.public_inputs,
                                    j.fri_proof, j.circuit_config))
             ELSE Err("SerializationError", MsgDeserializationFailed)

\* impl Display for ZkpError (thiserror)
Display(e) ==
    (CASE e.kind = "InvalidWitness" -> DisplayInvalidWitness
       [] e.kind = "InvalidPublicInput" -> DisplayInvalidPublicInput
       [] e.kind = "SerializationError" -> DisplaySerializationError) \o e.msg

\* Proof { inner: format!("<tag> {}", e).into_bytes() }
FailureProof(tag, e) == Proof(BytesPayload(tag \o <<32>> \o Display(e)))

FailureTags == {TagError, TagTraceError, TagConstraintError, TagStarkError}

\* the error-proof test without its STARK_ERROR: arm
IsFailureTagged_three_tags(inner) ==
    /\ inner.form = "bytes"
    /\ from_utf8_ok(inner.bytes)
    /\ \/ StartsWith(inner.bytes, TagError)
       \/ StartsWith(inner.bytes, TagTraceError)
       \/ StartsWith(inner.bytes, TagConstraintError)

\* the error-proof test at the head of verify: the payload is UTF-8 and
\* starts with one of the four prefixes (the text of a JSON object starts
\* with an opening brace)
IsFailureTagged(inner) ==
    /\ inner.form = "bytes"
    /\ from_utf8_ok(inner.bytes)
    /\ \/ StartsWith(inner.bytes, TagError)
       \/ StartsWith(inner.bytes, TagTraceError)
       \/ StartsWith(inner.bytes, TagConstraintError)
       \/ StartsWith(inner.bytes, TagStarkError)

(***************************************************************************)
(* backend/stark_prover.rs: StarkProver                                    *)
(***************************************************************************)
StarkProver_new(config) ==
    [circuit |-> SubstringCircuit_new(config), config |-> config]

\* extract_offset quoting the plaintext in its error message
extract_offset_quoting_plaintext(self, witness, statement) ==
    LET substring == statement.claim
        plaintext == from_utf8_lossy(witness.plaintext)
        found == str_find(plaintext, into_bytes(substring))
    IN  IF found >= 0 THEN Ok(found)
        ELSE Err("InvalidWitness", MsgSubstringNotFound \o <<58, 32>> \o plaintext)

extract_offset(self, witness, statement) ==
    LET substring == statement.claim
        plaintext == from_utf8_lossy(witness.plaintext)
        found == str_find(plaintext, into_bytes(substring))
    IN  IF found >= 0 THEN Ok(found)
        ELSE Err("InvalidWitness", MsgSubstringNotFound)

\* build_circuit_params taking the commitment from the witness document
build_circuit_params_commitment_of_witness(self, statement, witness) ==
    LET substring == statement.claim
        offset == extract_offset(self, witness, statement)
    IN  IF ~offset.ok THEN offset
        ELSE IF Len(statement.commitment) # DigestLen THEN
            Err("InvalidPublicInput", MsgInvalidCommitmentLength)
        ELSE Ok(CircuitParams(self.config,
                              PublicInputs(Sha256(witness.plaintext),
                                           into_bytes(substring)),
                              witness.plaintext,
                              offset.val))

build_circuit_params(self, statement, witness) ==
    LET substring == statement.claim
        offset == extract_offset(self, witness, statement)
    IN  IF ~offset.ok THEN offset
        ELSE IF Len(statement.commitment) # DigestLen THEN
            Err("InvalidPublicInput", MsgInvalidCommitmentLength)
        ELSE Ok(CircuitParams(self.config,
                              PublicInputs(statement.commitment, into_bytes(substring)),
                              witness.plaintext,
                              offset.val))

convert_trace_format(self, trace) == trace

\* hasher.update(&element.as_canonical_u64().to_le_bytes()) for one element:
\* ShaStep of its eight bytes, written out
ElementStep(element) ==
    LET b == to_le_bytes(element)
        m2 == (257 * 257) % ShaModulus
        m4 == (m2 * m2) % ShaModulus
        m8 == (m4 * m4) % ShaModulus
        a1 == b[1] + 1
        a2 == (a1 * 257 + b[2] + 1) % ShaModulus
        a3 == (a2 * 257 + b[3] + 1) % ShaModulus
        a4 == (a3 * 257 + b[4] + 1) % ShaModulus
        a5 == (a4 * 257 + b[5] + 1) % ShaModulus
        a6 == (a5 * 257 + b[6] + 1) % ShaModulus
        a7 == (a6 * 257 + b[7] + 1) % ShaModulus
        a8 == (a7 * 257 + b[8] + 1) % ShaModulus
    IN  <<m8, a8>>

\* the update step of n consecutive zero elements
RECURSIVE ZeroRunStep(_)
ZeroRunStep(n) ==
    IF n = 0 THEN <<1, 0>>
    ELSE IF n = 1 THEN ElementStep(F_ZERO)
    ELSE LET half == ZeroRunStep(n \div 2)
             both == ShaCompose(half, half)
         IN  IF n % 2 = 0 THEN both ELSE ShaCompose(both, ElementStep(F_ZERO))

\* for &element in row { hasher.update(...) } over the cells lo .. hi - 1 of
\* one column, as one update step
RECURSIVE CellsStep(_, _, _)
CellsStep(column, lo, hi) ==
    IF hi <= lo THEN <<1, 0>>
    ELSE IF hi = lo + 1 THEN ElementStep(column[lo])
    ELSE LET mid == (lo + hi) \div 2
         IN  ShaCompose(CellsStep(column, lo, mid), CellsStep(column, mid, hi))

\* a column of zeros is absorbed as one run
ColumnStep(column) ==
    LET n == Cardinality(DOMAIN column)
    IN  IF column = [r \in DOMAIN column |-> F_ZERO] THEN ZeroRunStep(n)
        ELSE CellsStep(column, 0, n)

\* for row in trace { ... } over the columns lo .. hi - 1 (the outer Vec of
\* the trace is the column index)
RECURSIVE TraceStep(_, _, _)
TraceStep(trace, lo, hi) ==
    IF hi <= lo THEN <<1, 0>>
    ELSE IF hi = lo + 1 THEN ColumnStep(trace[lo])
    ELSE LET mid == (lo + hi) \div 2
         IN  ShaCompose(TraceStep(trace, lo, mid), TraceStep(trace, mid, hi))

HashTrace(h, trace) == ShaApply(h, TraceStep(trace, 0, Cardinality(DOMAIN trace)))

compute_trace_commitment(self, trace) ==
    Ok(Sha256_finalize(HashTrace(Sha256_new, trace)))

generate_fri_proof(self, trace) ==
    Ok(Sha256_finalize(HashTrace(Sha256_update(Sha256_new, FriDomainSeparator),
                                 trace)))

generate_stark_proof(self, air, trace, params) ==
    LET trace_commitment == compute_trace_commitment(self, trace)
        fri_proof == generate_fri_proof(self, trace)
    IN  IF ~trace_commitment.ok THEN trace_commitment
        ELSE IF ~fri_proof.ok THEN fri_proof
        ELSE serde_json_to_vec(StarkProofData(trace_commitment.val,
                                              params.public_inputs,
                                              fri_proof.val,
                                              params.config))

extract_public_inputs(self, statement) ==
    IF Len(statement.commitment) # DigestLen THEN
        Err("InvalidPublicInput", MsgInvalidCommitmentLength)
    ELSE Ok(PublicInputs(statement.commitment, into_bytes(statement.claim)))

\* basic_proof_validation without the empty-substring test
basic_proof_validation_no_empty_test(self, proof_data) ==
    /\ Len(proof_data.trace_commitment) = 32
    /\ Len(proof_data.fri_proof) = 32
    /\ proof_data.public_inputs.commitment # ZeroDigest

\* basic_proof_validation without the all-zero commitment test
basic_proof_validation_no_zero_test(self, proof_data) ==
    /\ Len(proof_data.trace_commitment) = 32
    /\ Len(proof_data.fri_proof) = 32
    /\ proof_data.public_inputs.substring # <<>>

basic_proof_validation(self, proof_data) ==
    /\ Len(proof_data.trace_commitment) = 32
    /\ Len(proof_data.fri_proof) = 32
    /\ proof_data.public_inputs.substring # <<>>
    /\ proof_data.public_inputs.commitment # ZeroDigest

\* verify_stark_proof comparing the commitment only
verify_stark_proof_commitment_only(self, air, proof_bytes, public_inputs) ==
    LET proof_data == serde_json_from_slice(proof_bytes)
    IN  IF ~proof_data.ok THEN proof_data
        ELSE IF proof_data.val.public_inputs.commitment # public_inputs.commitment
        THEN Ok(FALSE)
        ELSE Ok(basic_proof_validation(self, proof_data.val))

verify_stark_proof(self, air, proof_bytes, public_inputs) ==
    LET proof_data == serde_json_from_slice(proof_bytes)
    IN  IF ~proof_data.ok THEN proof_data
        ELSE IF \/ proof_data.val.public_inputs.commitment # public_inputs.commitment
                \/ proof_data.val.public_inputs.substring # public_inputs.substring
        THEN Ok(FALSE)
        ELSE Ok(basic_proof_validation(self, proof_data.val))

\* <StarkProver as Prove>::prove
prove(self, statement, witness) ==
    LET params == build_circuit_params(self, statement, witness)
        trace == SubstringCircuit_generate_trace(self.circuit, params.val)
        checked == SubstringCircuit_verify_constraints(self.circuit, trace.val,
                                                       params.val)
        air == SubstringAIR_new(self.config)
        stark_trace == convert_trace_format(self, trace.val)
        proof_bytes == generate_stark_proof(self, air, stark_trace, params.val)
    IN  IF ~params.ok THEN FailureProof(TagError, params)
        ELSE IF ~trace.ok THEN FailureProof(TagTraceError, trace)
        \* only an Err of verify_constraints is turned into a failure tag
        ELSE IF ~checked.ok THEN FailureProof(TagConstraintError, checked)
        ELSE IF proof_bytes.ok THEN Proof(proof_bytes.val)
        ELSE FailureProof(TagStarkError, proof_bytes)

\* verify with unwrap_or(true) in place of unwrap_or(false)
verify_run_unwrap_or_true(self, statement, proof) ==
    LET public_inputs == extract_public_inputs(self, statement)
        air == SubstringAIR_new(self.config)
        checked == verify_stark_proof(self, air, proof.inner, public_inputs.val)
    IN  IF IsFailureTagged(proof.inner) THEN [result |-> FALSE, decoded |-> FALSE]
        ELSE IF ~public_inputs.ok THEN [result |-> FALSE, decoded |-> FALSE]
        ELSE [result |-> IF checked.ok THEN checked.val ELSE TRUE,
              decoded |-> TRUE]

\* <StarkProver as Prove>::verify, with the steps it went through:
\* decoded is TRUE when serde_json::from_slice was called on the payload
verify_run(self, statement, proof) ==
    LET public_inputs == extract_public_inputs(self, statement)
        air == SubstringAIR_new(self.config)
        checked == verify_stark_proof(self, air, proof.inner, public_inputs.val)
    IN  IF IsFailureTagged(proof.inner) THEN [result |-> FALSE, decoded |-> FALSE]
        ELSE IF ~public_inputs.ok THEN [result |-> FALSE, decoded |-> FALSE]
        ELSE [result |-> IF checked.ok THEN checked.val ELSE FALSE,
              decoded |-> TRUE]

verify(self, statement, proof) == verify_run(self, statement, proof).result

(***************************************************************************)
(* Inputs of the model.                                                    *)
(***************************************************************************)
\* a document one byte longer than the prover's max_text_len
LongDocument == Repeat(97, CfgMaxTextLen + 1)

Documents == SeqsUpTo(DocAlphabet, MaxDocLen) \cup {LongDocument}

\* claimed substrings (Claim::Substring { value }), as strings
Claims == SeqsUpTo(SubAlphabet, MaxSubChars)

\* a 32-byte digest that differs from d in its first byte
OtherDigest(d) == [d EXCEPT ![1] = (@ + 1) % 256]

\* a commitment of 31 bytes
ShortCommitment(d) == SubSeq(d, 1, DigestLen - 1)

\* commitments a caller may publish for a document: its SHA-256 digest, a
\* different digest, the all-zero digest and a truncated digest
CommitmentsFor(doc) ==
    {Sha256(doc), OtherDigest(Sha256(doc)), ZeroDigest, ShortCommitment(Sha256(doc))}

\* statements a verifier may be handed in place of statement s: another
\* commitment with the same claim, or another claim with the same commitment
Restatements(s) ==
    ({Statement(c, s.claim) :
         c \in {OtherDigest(s.commitment), ZeroDigest, Sha256(<<>>),
                ShortCommitment(Sha256(<<>>))}}
     \cup {Statement(s.commitment, v) : v \in Claims}) \ {s}

\* proofs that did not come out of prove, presented with statement s
ForgedTexts ==
    UNION {{tag, tag \o <<32, 120>>, <<32>> \o tag, tag \o <<255>>,
            SubSeq(tag, 1, Len(tag) - 1)} : tag \in FailureTags}
    \cup {<<>>, <<255>>, <<123, 125>>}

ForgedEnvelopes(s) ==
    {JsonObject(keys, tc, PublicInputs(c, sub), fri, CircuitConfig(3, 3, FALSE)) :
        keys \in {EnvelopeKeys, EnvelopeKeys \ {"fri_proof"}},
        tc \in {Repeat(7, 32), Repeat(7, 31), Repeat(256, 32)},
        c \in {s.commitment, OtherDigest(Sha256(<<>>)), ZeroDigest},
        sub \in {into_bytes(s.claim), <<>>, <<97>>},
        fri \in {Repeat(9, 32), Repeat(9, 33)}}

ForgedProofs(s) ==
    {Proof(BytesPayload(b)) : b \in ForgedTexts}
        \cup {Proof(JsonPayload(j)) : j \in ForgedEnvelopes(s)}

(***************************************************************************)
(* State of a prove / verify session on one StarkProver.                   *)
(***************************************************************************)
VARIABLES
    prover,      \* the StarkProver: its circuit and its CircuitConfig
    statement,   \* the Statement the caller holds
    witness,     \* the Witness the caller holds
    proof,       \* the Proof at hand
    phase,       \* "start": no proof yet; "ready": a proof is at hand;
                 \* "verified": verify has returned for proof and statement
    origin,      \* how the proof at hand came about: by prove (with the
                 \* statement and witness it was called on) or forged
    located,     \* what extract_offset returned inside the last prove
    outcome,     \* what the last verify returned, and whether it decoded
    accepted,    \* the statements verify has accepted the proof at hand for
    \* a direct use of the circuit layer (TraceGenerator, SubstringAIR and
    \* SubstringCircuit):
    cparams,     \* the CircuitParams handed to the circuit layer
    cstage,      \* "idle", "params", "traced", "evaluated", "checked", "counted"
    ctrace,      \* what generate_trace returned, which generator built it
                 \* and whether a cell was overwritten afterwards
    cverdict,    \* what SubstringAIR::verify_all_constraints returned, and
                 \* how many constraints evaluate_constraints produced
    cnative,     \* what SubstringCircuit::verify_constraints returned
    ccount,      \* what SubstringAIR::num_constraints returned
    \* repeated calls on one StarkProver:
    calls        \* the latest prove or verify call and an earlier one, each
                 \* with its arguments and what it returned

pvars == <<prover, statement, witness, proof, phase, origin, located, outcome,
           accepted, overflow_checks, calls>>

cvars == <<cparams, cstage, ctrace, cverdict, cnative, ccount>>

vars == <<pvars, cvars>>

NoProof == Proof(BytesPayload(<<>>))

NoOrigin == [by_prove |-> FALSE,
             statement |-> Statement(<<>>, <<>>),
             witness |-> Witness(<<>>)]

NoOffset == [called |-> FALSE, ok |-> FALSE, val |-> 0, kind |-> "none"]

NoOutcome == [returned |-> FALSE, result |-> FALSE, decoded |-> FALSE]

NoParams ==
    CircuitParamsNoWitness(CircuitConfig(0, 0, FALSE), PublicInputs(<<>>, <<>>))

NoTrace == [ok |-> FALSE, kind |-> "none", trace |-> ZeroTrace(1, 1),
            by |-> "none", tampered |-> FALSE]

NoVerdict == [returned |-> FALSE, ok |-> FALSE, val |-> FALSE, count |-> 0]

NoNative == [returned |-> FALSE, ok |-> FALSE, val |-> FALSE, kind |-> "none"]

NoCount == [returned |-> FALSE, val |-> 0]

NoCall == [op |-> "none", statement |-> Statement(<<>>, <<>>),
           witness |-> Witness(<<>>), given |-> NoProof, proof |-> NoProof,
           result |-> FALSE]

NoCalls == [earlier |-> NoCall, last |-> NoCall, apart |-> FALSE]

CircuitIdle ==
    /\ cparams = NoParams
    /\ cstage = "idle"
    /\ ctrace = NoTrace
    /\ cverdict = NoVerdict
    /\ cnative = NoNative
    /\ ccount = NoCount

Init ==
    /\ prover = StarkProver_new(CircuitConfig(CfgMaxTextLen, CfgMaxSubstringLen, FALSE))
    /\ \E doc \in Documents, value \in Claims :
          \E c \in CommitmentsFor(doc) :
              /\ witness = Witness(doc)
              /\ statement = Statement(c, value)
    /\ proof = NoProof
    /\ phase = "start"
    /\ origin = NoOrigin
    /\ located = NoOffset
    /\ outcome = NoOutcome
    /\ accepted = {}
    \* the offsets extract_offset finds never overflow: one build suffices
    /\ overflow_checks = FALSE
    /\ calls = NoCalls
    /\ CircuitIdle

\* prover.prove(&statement, &witness)
Prove ==
    /\ phase = "start"
    /\ proof' = prove(prover, statement, witness)
    /\ located' = LET r == extract_offset(prover, witness, statement)
                  IN  IF r.ok
                      THEN [called |-> TRUE, ok |-> TRUE, val |-> r.val, kind |-> "none"]
                      ELSE [called |-> TRUE, ok |-> FALSE, val |-> 0, kind |-> r.kind]
    /\ origin' = [by_prove |-> TRUE, statement |-> statement, witness |-> witness]
    /\ phase' = "ready"
    /\ UNCHANGED <<prover, statement, witness, outcome, accepted, overflow_checks, calls, cvars>>

\* a proof is handed to the verifier that no prove call produced; no witness
\* is involved (the session's document is empty)
Forge ==
    /\ phase = "start"
    /\ witness.plaintext = <<>>
    /\ \E p \in ForgedProofs(statement) : proof' = p
    /\ origin' = NoOrigin
    /\ phase' = "ready"
    /\ UNCHANGED <<prover, statement, witness, located, outcome, accepted, overflow_checks, calls, cvars>>

\* prover.verify(&statement, &proof)
Verify ==
    /\ phase = "ready"
    /\ LET run == verify_run(prover, statement, proof)
       IN  /\ outcome' = [returned |-> TRUE, result |-> run.result,
                          decoded |-> run.decoded]
           /\ accepted' = IF run.result THEN accepted \cup {statement} ELSE accepted
    /\ phase' = "verified"
    /\ UNCHANGED <<prover, statement, witness, proof, origin, located, overflow_checks, calls, cvars>>

\* an accepted proof is presented again, with another statement
Restate ==
    /\ phase = "verified"
    /\ outcome.result
    /\ \E B \in Restatements(statement) : statement' = B
    /\ phase' = "ready"
    /\ UNCHANGED <<prover, witness, proof, origin, located, outcome, accepted, overflow_checks, calls, cvars>>

Next == Prove \/ Forge \/ Verify \/ Restate

Spec == Init /\ [][Next]_vars

(***************************************************************************)
(* Direct use of the circuit layer: a CircuitParams is handed to           *)
(* TraceGenerator::generate_trace and the resulting trace to               *)
(* SubstringAIR::verify_all_constraints, as the tests of air.rs do, or to  *)
(* SubstringCircuit::generate_trace and the resulting trace to             *)
(* SubstringCircuit::verify_constraints, as the tests of                   *)
(* substring_circuit.rs do.  The trace is a value the caller holds: a cell *)
(* of it may be overwritten before it is handed on.                        *)
(***************************************************************************)
\* largest in-range witness offset of a CircuitParams
MaxOffset == 2

CircuitAlphabet == {97, 98}

CircuitDocuments == SeqsUpTo(CircuitAlphabet, MaxDocLen)

\* substrings of one repeated byte, one of two distinct bytes and one longer
\* than max_substring_len
CircuitSubstrings ==
    SeqsUpTo({97}, MaxSubChars) \cup {<<97, 98>>, Repeat(97, CfgMaxSubstringLen + 1)}

CircuitOffsets == 0..MaxOffset \cup {UsizeMax}

CircuitConfigs ==
    {CircuitConfig(CfgMaxTextLen, CfgMaxSubstringLen, FALSE),
     CircuitConfig(CfgMaxTextLen + 1, CfgMaxSubstringLen, TRUE)}

\* documents of one SHA-256 block and of one byte more, and one longer than
\* every max_text_len of CircuitConfigs
BlockDocuments == {Repeat(97, 64), Repeat(97, 65), Repeat(97, CfgMaxTextLen + 2)}

CircuitInputs ==
    \* short documents under the first configuration, honest commitment
    {CircuitParams(CircuitConfig(CfgMaxTextLen, CfgMaxSubstringLen, FALSE),
                   PublicInputs(Sha256(doc), substring), doc, offset) :
        doc \in CircuitDocuments, substring \in CircuitSubstrings,
        offset \in CircuitOffsets}
    \* a commitment that is not the digest of the document
    \cup {CircuitParams(CircuitConfig(CfgMaxTextLen, CfgMaxSubstringLen, FALSE),
                        PublicInputs(OtherDigest(Sha256(doc)), <<97>>), doc, 0) :
              doc \in {<<97>>, <<97, 98>>}}
    \* both configurations, documents around the block size
    \cup {CircuitParams(config, PublicInputs(Sha256(doc), <<97>>), doc, 0) :
              config \in CircuitConfigs,
              doc \in BlockDocuments \cup {<<>>, <<97>>}}
    \* a max_text_len beyond 64 rows, documents shorter and longer than 64
    \cup {CircuitParams(CircuitConfig(64 + CfgMaxTextLen, CfgMaxSubstringLen, multi),
                        PublicInputs(Sha256(doc), <<97>>), doc, 0) :
              multi \in BOOLEAN, doc \in {<<97>>, Repeat(97, 65)}}
    \* no witness
    \cup {CircuitParamsNoWitness(config, PublicInputs(Sha256(<<97>>), <<97>>)) :
              config \in CircuitConfigs}

InitCircuit ==
    /\ prover = StarkProver_new(CircuitConfig(CfgMaxTextLen, CfgMaxSubstringLen, FALSE))
    /\ statement = Statement(<<>>, <<>>)
    /\ witness = Witness(<<>>)
    /\ proof = NoProof
    /\ phase = "start"
    /\ origin = NoOrigin
    /\ located = NoOffset
    /\ outcome = NoOutcome
    /\ accepted = {}
    /\ \E params \in CircuitInputs :
          /\ cparams = params
          \* the build only matters when offset + n can overflow
          /\ overflow_checks \in
                IF params.has_witness /\ params.witness.offset > MaxOffset
                THEN BOOLEAN ELSE {FALSE}
    /\ calls = NoCalls
    /\ cstage = "params"
    /\ ctrace = NoTrace
    /\ cverdict = NoVerdict
    /\ cnative = NoNative
    /\ ccount = NoCount

\* the trace record of a generate_trace result
Generated(r, by) ==
    IF r.ok THEN [ok |-> TRUE, kind |-> "none", trace |-> r.val,
                  by |-> by, tampered |-> FALSE]
    ELSE [ok |-> FALSE, kind |-> r.kind, trace |-> ZeroTrace(1, 1),
          by |-> by, tampered |-> FALSE]

\* TraceGenerator::new(config).generate_trace(&params)
GenerateTrace ==
    /\ cstage = "params"
    /\ ctrace' = Generated(TraceGenerator_generate_trace(
                               TraceGenerator_new(cparams.config), cparams),
                           "TraceGenerator")
    /\ cstage' = "traced"
    /\ UNCHANGED <<pvars, cparams, cverdict, cnative, ccount>>

\* SubstringCircuit::new(config).generate_trace(&params)
CircuitGenerateTrace ==
    /\ cstage = "params"
    /\ ctrace' = Generated(SubstringCircuit_generate_trace(
                               SubstringCircuit_new(cparams.config), cparams),
                           "SubstringCircuit")
    /\ cstage' = "traced"
    /\ UNCHANGED <<pvars, cparams, cverdict, cnative, ccount>>

\* cells a caller overwrites: <<column, row, value>>
Tampers ==
    {<<match_flag_col, 63, 2>>, <<match_flag_col, 63, 1>>,
     <<match_flag_col, 0, 0>>, <<match_flag_col, 0, 1>>,
     <<offset_indicator_col, 0, 0>>, <<offset_indicator_col, 63, 2>>}

\* trace[column][row] = value, once
Tamper ==
    /\ cstage = "traced"
    /\ ctrace.ok
    /\ ~ctrace.tampered
    /\ \E t \in Tampers :
          /\ ctrace.trace[t[1]][t[2]] # t[3]
          /\ ctrace' = [ctrace EXCEPT !.trace[t[1]][t[2]] = t[3],
                                      !.tampered = TRUE]
    /\ UNCHANGED <<pvars, cparams, cstage, cverdict, cnative, ccount>>

\* SubstringAIR::new(config, layout).verify_all_constraints(&trace, &public_inputs)
EvaluateAIR ==
    /\ cstage = "traced"
    /\ ctrace.ok
    /\ ctrace.by = "TraceGenerator"
    /\ LET air == SubstringAIR_new(cparams.config)
           r == verify_all_constraints(air, ctrace.trace, cparams.public_inputs)
           constraints == evaluate_constraints(air, ctrace.trace,
                                               cparams.public_inputs)
       IN  cverdict' = [returned |-> TRUE, ok |-> r.ok, val |-> r.ok /\ r.val,
                        count |-> Len(constraints)]
    /\ cstage' = "evaluated"
    /\ UNCHANGED <<pvars, cparams, ctrace, cnative, ccount>>

\* the trace handed to verify_constraints when generate_trace returned none
BlankTrace == ZeroTrace(total_columns, 64)

\* SubstringCircuit::new(config).verify_constraints(&trace, &params)
VerifyConstraints ==
    /\ cstage = "traced"
    /\ ctrace.by = "SubstringCircuit"
    /\ LET r == SubstringCircuit_verify_constraints(
                    SubstringCircuit_new(cparams.config),
                    IF ctrace.ok THEN ctrace.trace ELSE BlankTrace, cparams)
       IN  cnative' = [returned |-> TRUE, ok |-> r.ok, val |-> r.ok /\ r.val,
                       kind |-> IF r.ok THEN "none" ELSE r.kind]
    /\ cstage' = "checked"
    /\ UNCHANGED <<pvars, cparams, ctrace, cverdict, ccount>>

\* SubstringAIR::new(config, layout).num_constraints()
NumConstraints ==
    /\ cstage = "params"
    /\ ccount' = [returned |-> TRUE,
                  val |-> num_constraints(SubstringAIR_new(cparams.config))]
    /\ cstage' = "counted"
    /\ UNCHANGED <<pvars, cparams, ctrace, cverdict, cnative>>

NextCircuit ==
    \/ GenerateTrace
    \/ CircuitGenerateTrace
    \/ Tamper
    \/ EvaluateAIR
    \/ VerifyConstraints
    \/ NumConstraints

SpecCircuit == InitCircuit /\ [][NextCircuit]_vars

(***************************************************************************)
(* Repeated calls on one StarkProver: prove and verify take &self, and a   *)
(* caller may call them any number of times, in any order, on statements,  *)
(* witnesses and the proof at hand.  The latest call is kept with its      *)
(* arguments and its return value, together with one earlier call.         *)
(***************************************************************************)
CallWitnesses == {Witness(<<97>>), Witness(<<98>>)}

CallStatements ==
    {Statement(Sha256(w.plaintext), <<97>>) : w \in CallWitnesses}

\* prover.prove(&s, &w) reusing the proof of the previous prove call when
\* that call was made on the same statement
ProveCall_reusing_last_proof(s, w) ==
    [op |-> "prove", statement |-> s, witness |-> w, given |-> NoProof,
     proof |-> IF origin.by_prove /\ origin.statement = s THEN proof
               ELSE prove(prover, s, w),
     result |-> FALSE]

\* prover.prove(&s, &w)
ProveCall(s, w) ==
    [op |-> "prove", statement |-> s, witness |-> w, given |-> NoProof,
     proof |-> prove(prover, s, w), result |-> FALSE]

\* prover.verify(&s, &p)
VerifyCall(s, p) ==
    [op |-> "verify", statement |-> s, witness |-> Witness(<<>>), given |-> p,
     proof |-> NoProof, result |-> verify(prover, s, p)]

\* the call record after call c: the earlier call is kept, or replaced by
\* the call made just before c
Called(c) ==
    {[earlier |-> calls.earlier, last |-> c, apart |-> TRUE],
     [earlier |-> calls.last, last |-> c, apart |-> FALSE]}

InitCalls ==
    /\ prover = StarkProver_new(CircuitConfig(CfgMaxTextLen, CfgMaxSubstringLen, FALSE))
    /\ statement = Statement(<<>>, <<>>)
    /\ witness = Witness(<<>>)
    /\ proof = NoProof
    /\ phase = "start"
    /\ origin = NoOrigin
    /\ located = NoOffset
    /\ outcome = NoOutcome
    /\ accepted = {}
    /\ overflow_checks = FALSE
    /\ calls = NoCalls
    /\ CircuitIdle

\* proof = prover.prove(&s, &w)
CallProve ==
    /\ \E s \in CallStatements, w \in CallWitnesses :
          LET c == ProveCall(s, w)
          IN  /\ calls' \in Called(c)
              /\ statement' = s
              /\ witness' = w
              /\ proof' = c.proof
              /\ origin' = [by_prove |-> TRUE, statement |-> s, witness |-> w]
    /\ phase' = "ready"
    /\ accepted' = {}
    /\ UNCHANGED <<prover, located, outcome, overflow_checks, cvars>>

\* prover.verify(&s, &proof)
CallVerify ==
    /\ \E s \in CallStatements :
          LET c == VerifyCall(s, proof)
          IN  /\ calls' \in Called(c)
              /\ statement' = s
              /\ outcome' = [returned |-> TRUE, result |-> c.result,
                             decoded |-> verify_run(prover, s, proof).decoded]
              /\ accepted' = IF c.result THEN accepted \cup {s} ELSE accepted
    /\ phase' = "verified"
    /\ UNCHANGED <<prover, witness, proof, origin, located, overflow_checks, cvars>>

NextCalls == CallProve \/ CallVerify

SpecCalls == InitCalls /\ [][NextCalls]_vars

(***************************************************************************)
(* Properties of a prove / verify session (specification Spec).            *)
(***************************************************************************)
\* the document and the claimed substring of the session, as bytes
SessionDocument == witness.plaintext

SessionSubstring == into_bytes(statement.claim)

\* document[k .. k + |substring|] == substring
OccursAt(document, substring, k) ==
    /\ Len(substring) <= Len(document)
    /\ k <= Len(document) - Len(substring)
    /\ Slice(document, k, k + Len(substring)) = substring

Occurrences(document, substring) ==
    {k \in 0..Len(document) : OccursAt(document, substring, k)}

\* the payload is a UTF-8 string beginning with one of the four tags
BeginsWithFailureTag(p) ==
    /\ p.inner.form = "bytes"
    /\ from_utf8_ok(p.inner.bytes)
    /\ \E tag \in FailureTags : StartsWith(p.inner.bytes, tag)

\* verify(statement, prove(statement, witness)) has just returned
RoundTripped ==
    /\ phase = "verified"
    /\ origin.by_prove
    /\ origin.statement = statement
    /\ origin.witness = witness

\* C1: whenever the substring occurs in the document at some offset and the
\* commitment is SHA-256 of the document,
\* verify(statement, prove(statement, witness)) returns true.  It is stated
\* here for the sessions the prover's configuration admits: a non-empty
\* substring, a document within max_text_len and a substring within
\* max_substring_len.
C1_RoundTrip ==
    (/\ RoundTripped
     /\ Occurrences(SessionDocument, SessionSubstring) # {}
     /\ statement.commitment = Sha256(SessionDocument)
     /\ SessionSubstring # <<>>
     /\ Len(SessionDocument) <= prover.config.max_text_len
     /\ Len(SessionSubstring) <= prover.config.max_substring_len)
    => outcome.result

\* C2: when the statement's commitment differs from SHA-256 of the witness
\* document, verify(statement, prove(statement, witness)) returns false.
C2_WrongCommitmentRejected ==
    (/\ RoundTripped
     /\ statement.commitment # Sha256(SessionDocument))
    => ~outcome.result

\* C3: when the claimed substring occurs nowhere in the witness document,
\* verify(statement, prove(statement, witness)) returns false.
C3_AbsentSubstringRejected ==
    (/\ RoundTripped
     /\ Occurrences(SessionDocument, SessionSubstring) = {})
    => ~outcome.result

\* C4: a proof that verify accepted for a statement A is rejected for every
\* statement B that differs from A in its commitment or its claimed substring.
C4_StatementBinding ==
    (/\ phase = "verified"
     /\ \E A \in accepted :
           \/ A.commitment # statement.commitment
           \/ A.claim # statement.claim)
    => ~outcome.result

C4_Witness ==
    /\ phase = "verified"
    /\ ~outcome.result
    /\ \E A \in accepted :
          /\ A.commitment = statement.commitment
          /\ A.claim # statement.claim
          /\ Len(statement.commitment) = DigestLen

\* the proof at hand decodes as an envelope that passes every check of the
\* verifier against the statement at hand
EnvelopePasses ==
    /\ serde_json_from_slice(proof.inner).ok
    /\ LET envelope == proof.inner.json
       IN  /\ envelope.public_inputs.commitment = statement.commitment
           /\ envelope.public_inputs.substring = SessionSubstring
           /\ Len(envelope.trace_commitment) = 32
           /\ Len(envelope.fri_proof) = 32
           /\ envelope.public_inputs.substring # <<>>
           /\ envelope.public_inputs.commitment # ZeroDigest

\* C5: for a proof that is not a failure tag, verify returns true exactly
\* when the proof decodes as an envelope whose public inputs equal the
\* statement's, whose trace_commitment and fri_proof are 32 bytes, whose
\* substring is non-empty and whose commitment is not the all-zero digest.
C5_AcceptIffStructural ==
    (phase = "verified" /\ ~BeginsWithFailureTag(proof))
    => (outcome.result <=> EnvelopePasses)

C5_Witness ==
    /\ phase = "verified"
    /\ ~origin.by_prove
    /\ ~BeginsWithFailureTag(proof)
    /\ serde_json_from_slice(proof.inner).ok
    /\ proof.inner.json.public_inputs.commitment = ZeroDigest
    /\ statement.commitment = ZeroDigest
    /\ ~outcome.result

\* C6: verify returns false for every proof that is a UTF-8 string beginning
\* with one of the four failure tags, without calling the envelope decoder.
C6_FailureTagRejectedUndecoded ==
    (phase = "verified" /\ BeginsWithFailureTag(proof))
    => (~outcome.result /\ ~outcome.decoded)

C6_Witness ==
    /\ phase = "verified"
    /\ ~origin.by_prove
    /\ StartsWith(proof.inner.bytes, TagStarkError)
    /\ BeginsWithFailureTag(proof)
    /\ Len(statement.commitment) = DigestLen
    /\ ~outcome.result
    /\ ~outcome.decoded

\* an internal step of prove(statement, witness) failed: building the
\* circuit parameters, generating the trace, the native constraint check
\* (an error or the answer false) or building the envelope
ProveInternalFailure ==
    LET params == build_circuit_params(prover, statement, witness)
        trace == SubstringCircuit_generate_trace(prover.circuit, params.val)
        checked == SubstringCircuit_verify_constraints(prover.circuit, trace.val,
                                                       params.val)
        envelope == generate_stark_proof(prover, SubstringAIR_new(prover.config),
                                         trace.val, params.val)
    IN  \/ ~params.ok
        \/ ~trace.ok
        \/ ~checked.ok
        \/ ~checked.val
        \/ ~envelope.ok

\* C7: whenever an internal step of prove fails, the proof it returns begins
\* with one of the four failure tags.
C7_FailuresAreTagged ==
    (/\ phase = "ready"
     /\ origin.by_prove
     /\ ~outcome.returned
     /\ ProveInternalFailure)
    => BeginsWithFailureTag(proof)

\* C8: verify returns a boolean, and it returns false when the proof does
\* not decode as an envelope, when the statement's commitment is not 32
\* bytes and when the envelope's public inputs differ from the statement's.
C8_VerifyTotal ==
    phase = "verified" =>
        /\ outcome.result \in BOOLEAN
        /\ (\/ ~serde_json_from_slice(proof.inner).ok
            \/ Len(statement.commitment) # 32
            \/ proof.inner.json.public_inputs.commitment # statement.commitment
            \/ proof.inner.json.public_inputs.substring # SessionSubstring)
           => ~outcome.result

C8_Witness ==
    /\ phase = "verified"
    /\ ~BeginsWithFailureTag(proof)
    /\ Len(statement.commitment) = 32
    /\ ~serde_json_from_slice(proof.inner).ok
    /\ outcome.decoded
    /\ ~outcome.result

\* C9: extract_offset returns the lowest byte index at which the substring
\* occurs in the document, and InvalidWitness when it occurs nowhere.
C9_LowestByteIndex ==
    located.called =>
        LET hits == Occurrences(origin.witness.plaintext,
                                into_bytes(origin.statement.claim))
        IN  IF hits # {}
            THEN /\ located.ok
                 /\ located.val \in hits
                 /\ \A k \in hits : located.val <= k
            ELSE /\ ~located.ok
                 /\ located.kind = "InvalidWitness"

(***************************************************************************)
(* Properties of the circuit layer (specification SpecCircuit).            *)
(***************************************************************************)
\* C10: for CircuitParams whose witness offset points at an occurrence of
\* the substring in the document and whose commitment is SHA-256 of the
\* document, verify_all_constraints returns true on the trace that
\* TraceGenerator::generate_trace produced.
C10_HonestTraceSatisfiesAIR ==
    (/\ cstage = "evaluated"
     /\ ~ctrace.tampered
     /\ OccursAt(cparams.witness.plaintext, cparams.public_inputs.substring,
                 cparams.witness.offset)
     /\ cparams.public_inputs.commitment = Sha256(cparams.witness.plaintext))
    => (cverdict.ok /\ cverdict.val)

\* C11: num_constraints() equals 32 + max_text_len + max_text_len +
\* 2 * max_text_len of the AIR's configuration, whatever the witness and the
\* public inputs of the params at hand.
C11_ConstraintCountClosedForm ==
    ccount.returned =>
        ccount.val = 32 + cparams.config.max_text_len
                        + cparams.config.max_text_len
                        + 2 * cparams.config.max_text_len

C11_Witness ==
    /\ ccount.returned
    /\ cparams.has_witness
    /\ Len(cparams.witness.plaintext) > cparams.config.max_text_len
    /\ cparams.config.max_text_len # cparams.config.max_substring_len
    /\ ccount.val = 4 * cparams.config.max_text_len + 32

\* C12: the number of constraints evaluate_constraints produces equals the
\* closed form 32 + 4 * max_text_len that num_constraints() returns.
C12_ProducedCountIsClosedForm ==
    cstage = "evaluated" =>
        /\ cverdict.count = 32 + 4 * cparams.config.max_text_len
        /\ cverdict.count = num_constraints(SubstringAIR_new(cparams.config))

\* the trace verify_all_constraints accepted
AcceptedTrace == cstage = "evaluated" /\ cverdict.ok /\ cverdict.val

\* the sum of column[lo .. hi - 1] as an integer
RECURSIVE ColumnTotal(_, _, _)
ColumnTotal(column, lo, hi) ==
    IF hi <= lo THEN 0
    ELSE IF hi = lo + 1 THEN column[lo]
    ELSE LET mid == (lo + hi) \div 2
         IN  ColumnTotal(column, lo, mid) + ColumnTotal(column, mid, hi)

\* C13: in every trace verify_all_constraints accepts, every cell of the
\* match-flag column and of the offset-indicator column is 0 or 1.
C13_BooleanColumns ==
    AcceptedTrace =>
        \A row \in DOMAIN ctrace.trace[match_flag_col] :
            /\ ctrace.trace[match_flag_col][row] \in {F_ZERO, F_ONE}
            /\ ctrace.trace[offset_indicator_col][row] \in {F_ZERO, F_ONE}

C13_Witness ==
    /\ AcceptedTrace
    /\ ctrace.tampered
    /\ ctrace.trace[match_flag_col][63] = F_ONE
    /\ ctrace.trace[offset_indicator_col][63] = F_ZERO
    /\ ctrace.trace[offset_indicator_col][0] = F_ONE

\* C14: in every trace verify_all_constraints accepts, the offset-indicator
\* column sums, over all rows, to the length of the disclosed substring.
C14_WindowSize ==
    AcceptedTrace =>
        ColumnTotal(ctrace.trace[offset_indicator_col], 0, TraceLen(ctrace.trace))
            = Len(cparams.public_inputs.substring)

C14_Witness ==
    /\ AcceptedTrace
    /\ Len(cparams.public_inputs.substring) = 2
    /\ cparams.witness.offset = 1
    /\ ColumnTotal(ctrace.trace[offset_indicator_col], 0, TraceLen(ctrace.trace)) = 2

\* the failure conditions of trace generation: the witness is missing, the
\* document is longer than max_text_len, the substring is longer than
\* max_substring_len, or offset + |substring| > |document|
MustFail(params) ==
    \/ ~params.has_witness
    \/ Len(params.witness.plaintext) > params.config.max_text_len
    \/ Len(params.public_inputs.substring) > params.config.max_substring_len
    \/ Len(params.public_inputs.substring) > Len(params.witness.plaintext)
    \/ params.witness.offset
           > Len(params.witness.plaintext) - Len(params.public_inputs.substring)

\* C15: TraceGenerator::generate_trace fails with InvalidWitness, and
\* returns no trace, whenever one of the failure conditions holds.
C15_TraceGeneratorRejects ==
    (/\ cstage = "traced"
     /\ ctrace.by = "TraceGenerator"
     /\ MustFail(cparams))
    => (~ctrace.ok /\ ctrace.kind = "InvalidWitness")

\* C16: SubstringCircuit::generate_trace fails with InvalidWitness exactly
\* when one of the failure conditions holds, and returns a trace otherwise.
C16_CircuitRejectsExactly ==
    (/\ cstage = "traced"
     /\ ctrace.by = "SubstringCircuit")
    => IF MustFail(cparams)
       THEN ~ctrace.ok /\ ctrace.kind = "InvalidWitness"
       ELSE ctrace.ok

\* the trace SubstringCircuit::verify_constraints was called on
CheckedTrace == IF ctrace.ok THEN ctrace.trace ELSE BlankTrace

\* one of the cross-checks of verify_constraints fails: the hash, the
\* substring at the witness offset, or a row of the match window
CrossCheckFails ==
    \/ Sha256(cparams.witness.plaintext) # cparams.public_inputs.commitment
    \/ ~OccursAt(cparams.witness.plaintext, cparams.public_inputs.substring,
                 cparams.witness.offset)
    \/ \E row \in DOMAIN CheckedTrace[offset_indicator_col] :
          /\ CheckedTrace[offset_indicator_col][row] = F_ONE
          /\ \/ CheckedTrace[match_flag_col][row] # F_ONE
             \/ CheckedTrace[plaintext_col][row] # CheckedTrace[substring_col][row]

\* C17: SubstringCircuit::verify_constraints returns Ok(false) whenever a
\* cross-check fails, and returns an error only when the witness is missing.
C17_CrossCheckFailureIsFalse ==
    cstage = "checked" =>
        /\ cparams.has_witness => cnative.ok
        /\ (cparams.has_witness /\ CrossCheckFails) => (cnative.ok /\ ~cnative.val)
        /\ ~cparams.has_witness => (~cnative.ok /\ cnative.kind = "InvalidWitness")

\* ceil(n / d)
CeilDiv(n, d) == IF n % d = 0 THEN n \div d ELSE (n \div d) + 1

\* the hash-step requirement of a document of n bytes
HashSteps(config, n) ==
    IF config.enable_multi_block_sha THEN CeilDiv(n, 64) * 64 ELSE 64

\* C18: the trace TraceGenerator builds has max(64, document length,
\* hash-step requirement) rows, in every column.
C18_TraceRowCount ==
    (/\ cstage = "traced"
     /\ ctrace.by = "TraceGenerator"
     /\ ctrace.ok)
    => \A column \in DOMAIN ctrace.trace :
          Cardinality(DOMAIN ctrace.trace[column])
              = Max(64, Max(Len(cparams.witness.plaintext),
                            HashSteps(cparams.config,
                                      Len(cparams.witness.plaintext))))

C18_Witness ==
    /\ cstage = "traced"
    /\ ctrace.by = "TraceGenerator"
    /\ ctrace.ok
    /\ cparams.config.enable_multi_block_sha
    /\ Len(cparams.witness.plaintext) = 65
    /\ TraceLen(ctrace.trace) = 128

\* C19: every proof prove returns that is not failure-tagged carries the
\* statement's commitment bytes and the bytes of its claimed substring as
\* public_inputs.
C19_ProofCarriesStatement ==
    (origin.by_prove /\ ~BeginsWithFailureTag(proof))
    => /\ proof.inner.form = "json"
       /\ proof.inner.json.public_inputs.commitment = origin.statement.commitment
       /\ proof.inner.json.public_inputs.substring
              = into_bytes(origin.statement.claim)

C19_Witness ==
    /\ origin.by_prove
    /\ ~BeginsWithFailureTag(proof)
    /\ origin.statement.commitment # Sha256(origin.witness.plaintext)
    /\ origin.statement.claim # <<>>
    /\ proof.inner.json.public_inputs.commitment = origin.statement.commitment

\* the failure texts of prove for a configuration, a statement and a
\* document of n bytes: they depend on the document through n alone
FailureTexts(config, s, n) ==
    {TagError \o <<32>> \o DisplayInvalidWitness \o MsgSubstringNotFound,
     TagError \o <<32>> \o DisplayInvalidPublicInput \o MsgInvalidCommitmentLength,
     TagTraceError \o <<32>> \o DisplayInvalidWitness \o MsgPlaintextTooLong
         \o ToDecimal(n) \o MsgGreaterThan \o ToDecimal(config.max_text_len),
     TagTraceError \o <<32>> \o DisplayInvalidWitness \o MsgSubstringTooLong
         \o ToDecimal(Len(into_bytes(s.claim))) \o MsgGreaterThan
         \o ToDecimal(config.max_substring_len),
     TagTraceError \o <<32>> \o DisplayInvalidWitness \o MsgOffsetOutOfBounds}

\* C20: a proof prove returns never embeds the witness document.  A proof
\* that is not failure-tagged consists of trace_commitment, public_inputs,
\* fri_proof and circuit_config; its public_inputs and circuit_config are the
\* statement's and the prover's, and the other two fields are 32-byte
\* digests.  A failure-tagged proof is one of the failure texts, which depend
\* on the document through its length alone.
C20_NoDocumentInProof ==
    origin.by_prove =>
        IF BeginsWithFailureTag(proof)
        THEN proof.inner.bytes
                 \in FailureTexts(prover.config, origin.statement,
                                  Len(origin.witness.plaintext))
        ELSE /\ proof.inner.form = "json"
             /\ proof.inner.json.keys = EnvelopeKeys
             /\ proof.inner.json.public_inputs
                    = PublicInputs(origin.statement.commitment,
                                   into_bytes(origin.statement.claim))
             /\ proof.inner.json.circuit_config = prover.config
             /\ Len(proof.inner.json.trace_commitment) = DigestLen
             /\ Len(proof.inner.json.fri_proof) = DigestLen

C20_Witness ==
    /\ origin.by_prove
    /\ BeginsWithFailureTag(proof)
    /\ Len(origin.witness.plaintext) = 2
    /\ proof.inner.bytes
           = TagError \o <<32>> \o DisplayInvalidWitness \o MsgSubstringNotFound

\* C21: whenever prove returns a proof that is not failure-tagged, the trace
\* it generated in that call (SubstringCircuit::generate_trace on the params
\* of build_circuit_params) satisfies every SubstringAIR constraint for the
\* call's public inputs: verify_all_constraints on it is true.
C21_ProvedTraceSatisfiesAIR ==
    (origin.by_prove /\ ~BeginsWithFailureTag(proof))
    => LET params == build_circuit_params(prover, origin.statement,
                                          origin.witness).val
           trace == SubstringCircuit_generate_trace(prover.circuit, params).val
           r == verify_all_constraints(SubstringAIR_new(prover.config), trace,
                                       params.public_inputs)
       IN  r.ok /\ r.val

\* C22: for every CircuitParams that validate_params accepts,
\* SubstringCircuit::verify_constraints on the trace that
\* SubstringCircuit::generate_trace returned for the same params returns true
\* exactly when SHA-256(document) equals the commitment and the document
\* holds the substring at the witness offset.
C22_NativeCheckExact ==
    (/\ cstage = "checked"
     /\ ctrace.ok
     /\ ~ctrace.tampered)
    => /\ cnative.ok
       /\ cnative.val
              <=> /\ Sha256(cparams.witness.plaintext)
                         = cparams.public_inputs.commitment
                  /\ OccursAt(cparams.witness.plaintext,
                              cparams.public_inputs.substring,
                              cparams.witness.offset)

\* C23: on the trace TraceGenerator::generate_trace produced, the AIR
\* evaluates 32 hash-consistency constraints and they all vanish exactly when
\* the public commitment equals SHA-256(document); digest byte i is in
\* hash-state column i at row trace_len - 32 + i.
C23_HashLayoutAgrees ==
    (/\ cstage = "traced"
     /\ ctrace.ok
     /\ ctrace.by = "TraceGenerator")
    => LET digest == Sha256(cparams.witness.plaintext)
           constraints ==
               evaluate_sha256_constraints(SubstringAIR_new(cparams.config),
                                           ctrace.trace, cparams.public_inputs)
       IN  /\ Len(constraints) = 32
           /\ (\A k \in 1..Len(constraints) : constraints[k] = F_ZERO)
                  <=> cparams.public_inputs.commitment = digest
           /\ \A i \in 0..31 :
                  ctrace.trace[sha_state_cols_start + i]
                              [TraceLen(ctrace.trace) - 32 + i]
                      = from_int(digest[i + 1])

C23_Witness ==
    /\ cstage = "traced"
    /\ ctrace.ok
    /\ ctrace.by = "TraceGenerator"
    /\ cparams.public_inputs.commitment # Sha256(cparams.witness.plaintext)
    /\ evaluate_sha256_constraints(SubstringAIR_new(cparams.config),
                                   ctrace.trace, cparams.public_inputs)[1] # F_ZERO
    /\ ctrace.trace[sha_state_cols_start + 31][TraceLen(ctrace.trace) - 1] # F_ZERO

\* C24: every trace verify_all_constraints accepts passes the row-wise
\* cross-check of SubstringCircuit::verify_constraints: at every row whose
\* offset-indicator cell is 1, the match-flag cell is 1 and the plaintext
\* cell equals the substring cell.
C24_AcceptedPassesCrossCheck ==
    AcceptedTrace =>
        \A row \in DOMAIN ctrace.trace[offset_indicator_col] :
            ctrace.trace[offset_indicator_col][row] = F_ONE
                => /\ ctrace.trace[match_flag_col][row] = F_ONE
                   /\ ctrace.trace[plaintext_col][row]
                          = ctrace.trace[substring_col][row]

C24_Witness ==
    /\ AcceptedTrace
    /\ ctrace.tampered
    /\ ctrace.trace[offset_indicator_col][1] = F_ONE
    /\ ctrace.trace[match_flag_col][1] = F_ONE
    /\ ctrace.trace[plaintext_col][1] = from_int(97)
    /\ ctrace.trace[substring_col][1] = from_int(97)

\* C25: in the trace TraceGenerator::generate_trace returns, every row
\* r = offset + i with i < |substring| holds substring[i] in the substring
\* column, 1 in the offset-indicator column and, in the match-flag column, 1
\* if document[r] = substring[i] and 0 otherwise; every other row of these
\* three columns is 0.
C25_SubstringWindowCells ==
    (/\ cstage = "traced"
     /\ ctrace.ok
     /\ ~ctrace.tampered
     /\ ctrace.by = "TraceGenerator")
    => LET document == cparams.witness.plaintext
           substring == cparams.public_inputs.substring
           offset == cparams.witness.offset
           trace == ctrace.trace
       IN  \A r \in DOMAIN trace[substring_col] :
               IF r >= offset /\ r - offset < Len(substring)
               THEN LET byte == substring[r - offset + 1]
                    IN  /\ trace[substring_col][r] = from_int(byte)
                        /\ trace[offset_indicator_col][r] = F_ONE
                        /\ trace[match_flag_col][r]
                               = IF r < Len(document) /\ document[r + 1] = byte
                                 THEN F_ONE ELSE F_ZERO
               ELSE /\ trace[substring_col][r] = F_ZERO
                    /\ trace[offset_indicator_col][r] = F_ZERO
                    /\ trace[match_flag_col][r] = F_ZERO

\* C26: verify_all_constraints returns Ok(true) if every value that
\* evaluate_constraints returns for the same trace and public inputs is
\* zero, and Ok(false) otherwise.
C26_VerdictIsAllZero ==
    cstage = "evaluated" =>
        LET constraints ==
                evaluate_constraints(SubstringAIR_new(cparams.config),
                                     ctrace.trace, cparams.public_inputs)
        IN  /\ cverdict.ok
            /\ cverdict.val
                   <=> \A k \in 1..Len(constraints) : constraints[k] = F_ZERO

C26_Witness ==
    /\ cstage = "evaluated"
    /\ cverdict.ok
    /\ ~cverdict.val
    /\ LET constraints ==
               evaluate_constraints(SubstringAIR_new(cparams.config),
                                    ctrace.trace, cparams.public_inputs)
       IN  /\ constraints[1] # F_ZERO
           /\ \A k \in 2..Len(constraints) : constraints[k] = F_ZERO

\* the cells a generation step of generator by writes for params, in a trace
\* of trace_len rows: the digest diagonal, the plaintext and range-check rows
\* of the document and the rows offset + i of the substring window
WrittenCell(by, params, trace_len, c, r) ==
    LET n == Len(params.witness.plaintext)
        in_window ==
            WindowIndex(params.witness.offset, r)
                < Len(params.public_inputs.substring)
    IN  IF by = "TraceGenerator"
        THEN \/ c < 32 /\ r = trace_len - 32 + c
             \/ c \in {plaintext_col, range_check_col} /\ r < n
             \/ c \in {substring_col, match_flag_col, offset_indicator_col}
                    /\ in_window
        ELSE \/ c = plaintext_col /\ r < n
             \/ c \in {substring_col, match_flag_col, offset_indicator_col}
                    /\ in_window

\* C27: every trace TraceGenerator::generate_trace or
\* SubstringCircuit::generate_trace returns has exactly 101 columns of equal
\* length, at least 64 rows and at least as many rows as the document has
\* bytes, and every cell no generation step writes is 0.
C27_TraceShape ==
    (/\ cstage = "traced"
     /\ ctrace.ok
     /\ ~ctrace.tampered)
    => LET trace == ctrace.trace
           trace_len == TraceLen(trace)
       IN  /\ DOMAIN trace = 0..100
           /\ \A c \in DOMAIN trace : DOMAIN trace[c] = 0..(trace_len - 1)
           /\ trace_len >= 64
           /\ trace_len >= Len(cparams.witness.plaintext)
           /\ \A c \in DOMAIN trace : \A r \in DOMAIN trace[c] :
                  ~WrittenCell(ctrace.by, cparams, trace_len, c, r)
                      => trace[c][r] = F_ZERO

C27_Witness ==
    /\ cstage = "traced"
    /\ ctrace.ok
    /\ ~ctrace.tampered
    /\ ctrace.by = "TraceGenerator"
    /\ Len(cparams.witness.plaintext) = 65
    /\ TraceLen(ctrace.trace) = 65
    /\ ctrace.trace[range_check_col][64] = F_ONE
    /\ ctrace.trace[sha_state_cols_start][33] # F_ZERO
    /\ ctrace.trace[sha_state_cols_start][34] = F_ZERO

C29_DegenerateStatementRejected ==
    (/\ phase = "verified"
     /\ \/ into_bytes(statement.claim) = <<>>
        \/ statement.commitment = ZeroDigest
        \/ Len(statement.commitment) # 32)
    => (outcome.returned /\ ~outcome.result)

C29_Witness ==
    /\ phase = "verified"
    /\ origin.by_prove
    /\ into_bytes(statement.claim) = <<>>
    /\ statement.commitment = Sha256(origin.witness.plaintext)
    /\ statement.commitment # ZeroDigest
    /\ ~BeginsWithFailureTag(proof)
    /\ outcome.decoded
    /\ ~outcome.result

(***************************************************************************)
(* Further properties of the circuit layer (specification SpecCircuit).    *)
(***************************************************************************)
\* C30: for CircuitParams that pass validate_params, the trace of
\* SubstringCircuit::generate_trace and the trace of
\* TraceGenerator::generate_trace hold the same values in the plaintext,
\* substring, match-flag and offset-indicator columns on every row both
\* traces have, and 0 in those columns on every row only one of them has.
C30_GeneratorsAgree ==
    (/\ cstage = "traced"
     /\ ctrace.ok
     /\ ~ctrace.tampered
     /\ ctrace.by = "SubstringCircuit")
    => LET other == TraceGenerator_generate_trace(
                        TraceGenerator_new(cparams.config), cparams)
       IN  /\ other.ok
           /\ \A c \in {plaintext_col, substring_col, match_flag_col,
                        offset_indicator_col} :
                  LET mine == ctrace.trace[c]
                      theirs == other.val[c]
                  IN  /\ \A r \in DOMAIN mine \cap DOMAIN theirs :
                             mine[r] = theirs[r]
                      /\ \A r \in DOMAIN mine \ DOMAIN theirs : mine[r] = F_ZERO
                      /\ \A r \in DOMAIN theirs \ DOMAIN mine : theirs[r] = F_ZERO

====
